---- MODULE Spec2Model ----
(***************************************************************************)
(* A model of sample_client.py: the UOR sample gRPC client (pull / push).  *)
(*                                                                         *)
(* Python strings are sequences of one-character strings, so that parsing, *)
(* joining and path normalisation are computed character by character.     *)
(* Python dicts are sequences of <<key, value>> pairs with distinct keys   *)
(* (a dict iterates in insertion order).  None and the other tagged values *)
(* are records with a "tag" field.  The keys of attribute and credential   *)
(* dicts, log messages and exception names stay TLA+ strings: the code     *)
(* only compares them.                                                     *)
(***************************************************************************)
EXTENDS Integers, Sequences, FiniteSets, TLC

\* ------------------------------------------------------------------ bounds
MaxPathLen == 3      \* longest workspace argument, in characters
MaxDigests == 2      \* longest digest list of a RetrieveContent response

\* ----------------------------------------------------------- python values
None == [tag |-> "None"]

PyBool(b) == [tag |-> "bool", b |-> b]
PyStr(s) == [tag |-> "str", s |-> s]
PyInt(n) == [tag |-> "int", n |-> n]

\* dict helpers: a dict is a sequence of <<key, value>> pairs
Keys(d) == {d[i][1] : i \in 1..Len(d)}
HasKey(d, k) == \E i \in 1..Len(d) : d[i][1] = k
Get(d, k) == d[CHOOSE i \in 1..Len(d) : d[i][1] = k][2]
\* d[k] = v: an existing key keeps its position, a new key is appended
Put(d, k, v) ==
  IF HasKey(d, k)
  THEN [i \in 1..Len(d) |-> IF d[i][1] = k THEN <<k, v>> ELSE d[i]]
  ELSE Append(d, <<k, v>>)

\* ----------------------------------------------------------- str helpers
StartsWith(s, p) == Len(s) >= Len(p) /\ SubSeq(s, 1, Len(p)) = p
Contains(s, p) == \E i \in 1..(Len(s) - Len(p) + 1) : SubSeq(s, i, i + Len(p) - 1) = p
HasChar(s, c) == \E i \in 1..Len(s) : s[i] = c

\* s.split(sep): the pieces of s between the occurrences of the character sep
RECURSIVE Split(_, _)
Split(s, sep) ==
  IF ~HasChar(s, sep) THEN <<s>>
  ELSE LET i == CHOOSE i \in 1..Len(s) : s[i] = sep /\ \A j \in 1..(i - 1) : s[j] # sep
       IN  <<SubSeq(s, 1, i - 1)>> \o Split(SubSeq(s, i + 1, Len(s)), sep)

\* s.split(sep, 1): split at the first occurrence only
Split1(s, sep) ==
  IF ~HasChar(s, sep) THEN <<s>>
  ELSE LET i == CHOOSE i \in 1..Len(s) : s[i] = sep /\ \A j \in 1..(i - 1) : s[j] # sep
       IN  <<SubSeq(s, 1, i - 1), SubSeq(s, i + 1, Len(s))>>

\* sep.join(parts)
RECURSIVE Join(_, _)
Join(sep, parts) ==
  IF Len(parts) = 0 THEN <<>>
  ELSE IF Len(parts) = 1 THEN parts[1]
  ELSE parts[1] \o sep \o Join(sep, Tail(parts))

\* ------------------------------------------------------------- os.path
isabs(path) == StartsWith(path, <<"/">>)

\* posixpath.join(a, p)
pathjoin(a, p) ==
  IF isabs(p) THEN p
  ELSE IF Len(a) = 0 \/ a[Len(a)] = "/" THEN a \o p
  ELSE a \o <<"/">> \o p

\* the component loop of posixpath.normpath
RECURSIVE NormComps(_, _, _)
NormComps(comps, new_comps, initial_slashes) ==
  IF Len(comps) = 0 THEN new_comps
  ELSE LET comp == Head(comps)
           dotdot == <<".", ".">>
       IN  IF comp = <<>> \/ comp = <<".">>
           THEN NormComps(Tail(comps), new_comps, initial_slashes)
           ELSE IF comp # dotdot
                   \/ (initial_slashes = 0 /\ Len(new_comps) = 0)
                   \/ (Len(new_comps) > 0 /\ new_comps[Len(new_comps)] = dotdot)
           THEN NormComps(Tail(comps), Append(new_comps, comp), initial_slashes)
           ELSE IF Len(new_comps) > 0
           THEN NormComps(Tail(comps), SubSeq(new_comps, 1, Len(new_comps) - 1),
                          initial_slashes)
           ELSE NormComps(Tail(comps), new_comps, initial_slashes)

\* posixpath.normpath
normpath(path) ==
  IF Len(path) = 0 THEN <<".">>
  ELSE LET initial_slashes ==
             IF ~StartsWith(path, <<"/">>) THEN 0
             ELSE IF StartsWith(path, <<"/", "/">>) /\ ~StartsWith(path, <<"/", "/", "/">>)
             THEN 2 ELSE 1
           comps == NormComps(Split(path, "/"), <<>>, initial_slashes)
           joined == Join(<<"/">>, comps)
           res == [i \in 1..initial_slashes |-> "/"] \o joined
       IN  IF Len(res) = 0 THEN <<".">> ELSE res

\* variant of abspath: made absolute, not normalised
abspathDropsNorm(wd, path) == IF isabs(path) THEN path ELSE pathjoin(wd, path)

\* os.path.abspath(path), with wd the process's working directory
abspath(wd, path) == normpath(IF isabs(path) THEN path ELSE pathjoin(wd, path))

\* ------------------------------------------------------- string constants
S_docker_io == <<"d", "o", "c", "k", "e", "r", ".", "i", "o">>
S_index_docker_io == <<"i", "n", "d", "e", "x", ".">> \o S_docker_io
S_localhost == <<"l", "o", "c", "a", "l", "h", "o", "s", "t">>
S_http == <<"h", "t", "t", "p", ":", "/", "/">>
S_https == <<"h", "t", "t", "p", "s", ":", "/", "/">>
S_unix == <<"u", "n", "i", "x", ":", "/", "/">>
S_default_socket ==
  <<"/", "v", "a", "r", "/", "r", "u", "n", "/", "u", "o", "r", ".", "s", "o", "c", "k">>

\* docker.auth.INDEX_NAME and INDEX_URL
INDEX_NAME == S_docker_io
INDEX_URL == S_https \o S_index_docker_io \o <<"/", "v", "1", "/">>

\* ------------------------------------------------------------ docker.auth
\* s.replace(p, ""): every occurrence of p removed, left to right
RECURSIVE RemoveAll(_, _)
RemoveAll(s, p) ==
  IF ~Contains(s, p) THEN s
  ELSE LET i == CHOOSE i \in 1..(Len(s) - Len(p) + 1) :
                  /\ SubSeq(s, i, i + Len(p) - 1) = p
                  /\ \A j \in 1..(i - 1) : SubSeq(s, j, j + Len(p) - 1) # p
       IN  SubSeq(s, 1, i - 1) \o RemoveAll(SubSeq(s, i + Len(p), Len(s)), p)

\* docker.auth.convert_to_hostname
convert_to_hostname(url) == Split1(RemoveAll(RemoveAll(url, S_http), S_https), "/")[1]

\* docker.auth.resolve_index_name
resolve_index_name(index_name) ==
  LET h == convert_to_hostname(index_name)
  IN  IF h = S_index_docker_io THEN INDEX_NAME ELSE h

\* docker.auth.split_repo_name: <<index name, remote name>>
split_repo_name(repo_name) ==
  LET parts == Split1(repo_name, "/")
  IN  IF Len(parts) = 1
         \/ (~HasChar(parts[1], ".") /\ ~HasChar(parts[1], ":") /\ parts[1] # S_localhost)
      THEN <<INDEX_NAME, repo_name>>
      ELSE parts

\* docker.auth.resolve_repository_name: the registry of a reference, or
\* InvalidRepository raised
resolve_repository_name(repo_name) ==
  IF Contains(repo_name, <<":", "/", "/">>)
  THEN [raised |-> TRUE, exc |-> "InvalidRepository"]
  ELSE LET index_name == split_repo_name(repo_name)[1]
       IN  IF index_name[1] = "-" \/ index_name[Len(index_name)] = "-"
           THEN [raised |-> TRUE, exc |-> "InvalidRepository"]
           ELSE [raised |-> FALSE, registry |-> resolve_index_name(index_name)]

\* AuthConfig._resolve_authconfig_credstore: the entry the credentials store
\* holds for the registry, or None
resolve_authconfig_credstore(store, registry) ==
  LET key == IF Len(registry) = 0 \/ registry = INDEX_NAME THEN INDEX_URL ELSE registry
  IN  IF ~HasKey(store, key) THEN None
      ELSE LET data == Get(store, key)
           IN  [tag |-> "dict",
                d |-> <<<<"ServerAddress", key>>,
                        <<"Username", Get(data, "Username")>>,
                        <<"Password", Get(data, "Secret")>>>>]

\* AuthConfig.resolve_authconfig on the auths section: an exact key first,
\* then the first key that resolves to the registry
resolve_authconfig_auths(auths, registry0) ==
  LET registry == IF Len(registry0) = 0 THEN INDEX_NAME ELSE resolve_index_name(registry0)
  IN  IF HasKey(auths, registry) THEN [tag |-> "dict", d |-> Get(auths, registry)]
      ELSE IF \E i \in 1..Len(auths) : resolve_index_name(auths[i][1]) = registry
      THEN LET i == CHOOSE i \in 1..Len(auths) :
                      /\ resolve_index_name(auths[i][1]) = registry
                      /\ \A j \in 1..(i - 1) : resolve_index_name(auths[j][1]) # registry
           IN  [tag |-> "dict", d |-> auths[i][2]]
      ELSE None

\* docker.auth.resolve_authconfig: None, or the dict of the matching entry
resolve_authconfig(cfg, registry) ==
  LET cs == IF cfg.creds_store = None THEN None
            ELSE resolve_authconfig_credstore(cfg.creds_store.d, registry)
  IN  IF cs # None THEN cs ELSE resolve_authconfig_auths(cfg.auths, registry)

\* has the credential store an entry matching the registry?
HasMatchingEntry(cfg, registry) == resolve_authconfig(cfg, registry) # None

\* ------------------------------------------------------ create_auth_config
PbAuthConfig(server_address, username, password) ==
  [tag |-> "AuthConfig", server_address |-> server_address,
   username |-> username, password |-> password]

\* variant of create_auth_config: every failure caught and None returned
create_auth_config_swallows_errors(cfg, reference) ==
  IF cfg.tag = "invalid" THEN [raised |-> FALSE, value |-> None]
  ELSE LET rr == resolve_repository_name(reference)
       IN  IF rr.raised THEN [raised |-> FALSE, value |-> None]
           ELSE LET creds == resolve_authconfig(cfg, rr.registry)
                IN  IF creds = None THEN [raised |-> FALSE, value |-> None]
                    ELSE IF ~HasKey(creds.d, "username") \/ ~HasKey(creds.d, "password")
                    THEN [raised |-> FALSE, value |-> None]
                    ELSE [raised |-> FALSE,
                          value |-> PbAuthConfig(S_https \o rr.registry,
                                                 Get(creds.d, "username"),
                                                 Get(creds.d, "password"))]

\* create_auth_config(reference), with cfg what auth.load_config() finds on
\* disk: a value returned (None or an AuthConfig message) or an exception
create_auth_config(cfg, reference) ==
  IF cfg.tag = "invalid" THEN [raised |-> TRUE, exc |-> "InvalidConfigFile"]
  ELSE LET rr == resolve_repository_name(reference)
       IN  IF rr.raised THEN rr
           ELSE LET creds == resolve_authconfig(cfg, rr.registry)
                IN  IF creds = None THEN [raised |-> FALSE, value |-> None]
                    ELSE IF ~HasKey(creds.d, "username") \/ ~HasKey(creds.d, "password")
                    THEN [raised |-> TRUE, exc |-> "KeyError"]
                    ELSE [raised |-> FALSE,
                          value |-> PbAuthConfig(S_https \o rr.registry,
                                                 Get(creds.d, "username"),
                                                 Get(creds.d, "password"))]

\* ------------------------------------------- google.protobuf.struct_pb2
\* struct_pb2._SetStructValue: the Value message a Python scalar becomes
\* (bool is tested before the numbers; a number is stored as a double)
SetStructValue(v) ==
  CASE v.tag = "None" -> [kind |-> "null_value"]
    [] v.tag = "bool" -> [kind |-> "bool_value", bool_value |-> v.b]
    [] v.tag = "str"  -> [kind |-> "string_value", string_value |-> v.s]
    [] v.tag = "int"  -> [kind |-> "number_value", number_value |-> v.n]

\* Struct.update(dictionary) on the fields of a Struct
RECURSIVE StructUpdate(_, _)
StructUpdate(fields, dictionary) ==
  IF Len(dictionary) = 0 THEN fields
  ELSE StructUpdate(Put(fields, Head(dictionary)[1], SetStructValue(Head(dictionary)[2])),
                    Tail(dictionary))

\* ------------------------------------------------------ create_collection
PbFile(pattern, attributes_struct) == [file |-> pattern, attributes |-> attributes_struct]

\* variant of create_collection: the loop stops one entry early
RECURSIVE create_collection_skips_last(_)
create_collection_skips_last(table) ==
  IF Len(table) <= 1 THEN [tag |-> "Collection", files |-> <<>>]
  ELSE [tag |-> "Collection",
        files |-> <<PbFile(Head(table)[1], StructUpdate(<<>>, Head(table)[2]))>>
                  \o create_collection_skips_last(Tail(table)).files]

\* create_collection(): one File per (pattern, attr) item of the table
RECURSIVE create_collection(_)
create_collection(table) ==
  IF Len(table) = 0 THEN [tag |-> "Collection", files |-> <<>>]
  ELSE [tag |-> "Collection",
        files |-> <<PbFile(Head(table)[1], StructUpdate(<<>>, Head(table)[2]))>>
                  \o create_collection(Tail(table)).files]

\* the logging.info calls of create_collection, one per attribute
RECURSIVE create_collection_log(_)
create_collection_log(table) ==
  IF Len(table) = 0 THEN <<>>
  ELSE [i \in 1..Len(Head(table)[2]) |->
          [level |-> "INFO", msg |-> "Applying attribute",
           key |-> Head(table)[2][i][1], pattern |-> Head(table)[1]]]
       \o create_collection_log(Tail(table))

\* the module-level table attributes_by_pattern
StaticTable ==
  << << <<"*", ".", "j", "p", "g">>,      << <<"images", PyBool(TRUE)>> >> >>,
     << <<"*", ".", "j", "s", "o", "n">>, << <<"metadata", PyBool(TRUE)>> >> >> >>
\* ------------------------------------------------------------ input sets
PathChars == {"/", ".", "a"}

RECURSIVE SeqsUpTo(_, _)
SeqsUpTo(S, n) ==
  IF n = 0 THEN {<<>>}
  ELSE LET shorter == SeqsUpTo(S, n - 1)
       IN  shorter \cup {Append(q, c) : q \in shorter, c \in S}

\* the workspace arguments: every string over PathChars up to MaxPathLen
Workspaces == SeqsUpTo(PathChars, MaxPathLen)

\* the working directories of the process (os.getcwd() is absolute and normal)
Cwds == {<<"/">>, <<"/", "w">>}

R_u == <<"u">>
R_ho == <<"h", ".", "o", "/", "i">>
R_h5 == <<"h", ":", "5", "/", "i", ":", "t">>
R_local == S_localhost \o <<"/", "i">>
R_index == S_index_docker_io \o <<"/", "i">>
R_hyphen == <<"-", "h", ".", "o", "/", "i">>
R_scheme == <<"a", ":", "/", "/", "b">>
References == {R_u, R_ho, R_h5, R_local, R_index, R_hyphen, R_scheme}

\* the --attributes argument of pull: absent, or a dict of scalars
AttributeArgs ==
  {None,
   [tag |-> "dict", d |-> << <<"images", PyBool(TRUE)>>, <<"size", PyInt(1)>> >>]}

\* the values of UOR_SOCKET_ADDRESS: unset, set to "", set to /tmp/x.sock
S_tmp_x_sock == <<"/", "t", "m", "p", "/", "x", ".", "s", "o", "c", "k">>
Environs == {None, PyStr(<<>>), PyStr(S_tmp_x_sock)}

\* what auth.load_config() can find on disk (entries as docker.auth parses them)
UserPass(u, p) == << <<"username", u>>, <<"password", p>> >>
Token(t) == << <<"IdentityToken", t>> >>
DockerCfg(auths, creds_store) ==
  [tag |-> "AuthConfig", auths |-> auths, creds_store |-> creds_store]
DockerConfigs ==
  {[tag |-> "invalid"],
   DockerCfg(<<>>, None),
   DockerCfg(<< <<<<"h", ".", "o">>, UserPass(<<"u", "1">>, <<"p", "1">>)>>,
                <<INDEX_URL, UserPass(<<"u", "2">>, <<"p", "2">>)>> >>, None),
   DockerCfg(<< <<<<"h", ".", "o">>, Token(<<"t">>)>>,
                <<S_localhost, <<>> >> >>, None),
   DockerCfg(<< <<<<"h", ".", "o">>, UserPass(<<"u", "1">>, <<"p", "1">>)>> >>,
             [tag |-> "dict",
              d |-> << <<<<"h", ":", "5">>,
                         << <<"Username", <<"u", "3">> >>, <<"Secret", <<"p", "3">> >> >> >> >>])}

\* the digests a server can answer with
Digests == {<<"d", "1">>, <<"d", "2">>}
DigestLists == SeqsUpTo(Digests, MaxDigests)
PublishDigests == Digests \cup {<<>>}

\* the process arguments fire dispatches on
ArgvsOver(workspaces) ==
  {[cmd |-> "pull", reference |-> r, workspace |-> w, attributes |-> a] :
      r \in References, w \in workspaces, a \in AttributeArgs}
  \cup
  {[cmd |-> "push", reference |-> r, workspace |-> w, attributes |-> None] :
      r \in References, w \in workspaces}
Argvs == ArgvsOver(Workspaces)

\* pattern-to-attribute tables: the one of the source, and others
Tables ==
  {StaticTable,
   <<>>,
   << << <<"*", ".", "j">>, << <<"images", PyBool(TRUE)>>, <<"size", PyInt(1)>> >> >>,
      << <<"*", ".", "t">>, << <<"images", PyBool(TRUE)>>, <<"size", PyInt(1)>> >> >>,
      << <<"*">>, <<>> >> >>,
   << << <<"a">>, << <<"kind", PyStr(<<"x">>)>>, <<"owner", None>>,
                     <<"metadata", PyBool(FALSE)>> >> >> >>}

\* ----------------------------------------------------------------- state
VARIABLES
  environ,               \* os.environ["UOR_SOCKET_ADDRESS"], or None
  cwd,                   \* os.getcwd()
  argv,                  \* the command line
  attributes_by_pattern, \* the module-level table
  pc,                    \* where the process is
  socket,                \* SampleClient.socket
  attribute_struct, abs_workspace, auth_config, collection, req,  \* locals
  auth_configs,          \* what create_auth_config loaded from disk
  channel,               \* the grpc channel of the with block
  channelsOpened,        \* channels created so far
  calls,                 \* the RPCs issued so far, in order
  resp,                  \* what the stub call produced
  retval,                \* what the command returned
  exc,                   \* the exception propagating out of the command
  log,                   \* the logging records
  stdout,                \* what fire printed
  exit_status

vars == <<environ, cwd, argv, attributes_by_pattern, pc, socket, attribute_struct,
          abs_workspace, auth_config, collection, req, auth_configs, channel,
          channelsOpened, calls, resp, retval, exc, log, stdout, exit_status>>

Unset == [tag |-> "unset"]
NoChannel == [state |-> "none", target |-> <<>>]

LogRec(level, msg) == [level |-> level, msg |-> msg]

\* the state of a freshly started process
InitWith(environs, cwds, argvs, tables) ==
  /\ environ \in environs
  /\ cwd \in cwds
  /\ argv \in argvs
  /\ attributes_by_pattern \in tables
  /\ pc = "main"
  /\ socket = Unset
  /\ attribute_struct = Unset
  /\ abs_workspace = Unset
  /\ auth_config = Unset
  /\ collection = Unset
  /\ req = Unset
  /\ auth_configs = Unset
  /\ channel = NoChannel
  /\ channelsOpened = 0
  /\ calls = <<>>
  /\ resp = Unset
  /\ retval = Unset
  /\ exc = None
  /\ log = <<>>
  /\ stdout = <<>>
  /\ exit_status = Unset

Init == InitWith(Environs, Cwds, Argvs, {StaticTable})

\* processes whose module-level table is any of Tables
InitTables == InitWith({None}, {<<"/", "w">>}, ArgvsOver({<<"a">>}), Tables)

\* ------------------------------------------------------------- __main__
\* variant of socket_address: os.getenv(name, default), any set value used
socket_address_getenv_default(env) == IF env.tag = "None" THEN S_default_socket ELSE env.s

\* the socket address chosen at startup: the variable when it is truthy
\* (set and not empty), else the default
socket_address(env) ==
  IF env.tag # "None" /\ Len(env.s) > 0 THEN env.s ELSE S_default_socket

\* lines 166-175: resolve the address, construct the client
MainStartup ==
  /\ pc = "main"
  /\ socket' = PyStr(socket_address(environ))
  /\ log' = IF environ.tag # "None" /\ Len(environ.s) > 0 THEN log
            ELSE Append(log, LogRec("INFO", "Using socket location"))
  /\ pc' = "dispatch"
  /\ UNCHANGED <<environ, cwd, argv, attributes_by_pattern, attribute_struct,
                 abs_workspace, auth_config, collection, req, auth_configs, channel,
                 channelsOpened, calls, resp, retval, exc, stdout, exit_status>>

\* ------------------------------------------------- shared statement forms
\* pb2.Retrieve.Request(source, destination, filter, auth)
RetrieveRequest(reference, workspace, filter, auth) ==
  [source |-> reference, destination |-> workspace, filter |-> filter, auth |-> auth]

\* pb2.Publish.Request(source, destination, collection, auth)
PublishRequest(workspace, reference, coll, auth) ==
  [source |-> workspace, destination |-> reference, collection |-> coll, auth |-> auth]

\* grpc.insecure_channel(f"unix://{self.socket}")
insecure_channel(sock) == [state |-> "open", target |-> S_unix \o sock.s]

\* variant of ChannelExit: close() after the call, without with/finally
ChannelExitOnSuccessOnly(ch, raising) == IF raising THEN ch ELSE [ch EXCEPT !.state = "closed"]

\* Channel.__exit__ at the end of the with block, whether the block returns,
\* falls off its end or raises
ChannelExit(ch, raising) == [ch EXCEPT !.state = "closed"]

\* variant of StubCall: the call issued a second time
StubCallTwice(cs, method, request) ==
  cs \o <<[method |-> method, request |-> request], [method |-> method, request |-> request]>>

\* stub.<method>(request): one unary call put on the wire
StubCall(cs, method, request) == Append(cs, [method |-> method, request |-> request])

\* variant of pull_result: a newline after every digest
pull_result_trailing_newline(digests) ==
  IF Len(digests) = 0 THEN None ELSE PyStr(Join(<<"\n">>, digests) \o <<"\n">>)

\* lines 120-124: what pull returns for the digests of a response
pull_result(digests) ==
  IF Len(digests) = 0 THEN None ELSE PyStr(Join(<<"\n">>, digests))

\* variant of push_result: an empty digest returned as None
push_result_none_when_empty(digest) == IF Len(digest) = 0 THEN None ELSE PyStr(digest)

\* line 162: what push returns for the digest of a response
push_result(digest) == PyStr(digest)

\* variant of RpcErrorOutcome: the error caught, an empty string returned
RpcErrorSwallowed == [pc |-> "returned", exc |-> None, retval |-> PyStr(<<>>)]

\* an exception raised by the stub call is not caught: it leaves the command
RpcErrorOutcome == [pc |-> "raised", exc |-> [tag |-> "RpcError"], retval |-> Unset]

\* ----------------------------------------------------------------- pull
\* lines 99-101
PullEnter ==
  /\ pc = "dispatch"
  /\ argv.cmd = "pull"
  /\ attribute_struct' = IF argv.attributes.tag = "None" THEN <<>>
                         ELSE StructUpdate(<<>>, argv.attributes.d)
  /\ pc' = "pull_abspath"
  /\ UNCHANGED <<environ, cwd, argv, attributes_by_pattern, socket, abs_workspace,
                 auth_config, collection, req, auth_configs, channel, channelsOpened,
                 calls, resp, retval, exc, log, stdout, exit_status>>

\* lines 103-104
PullAbspath ==
  /\ pc = "pull_abspath"
  /\ abs_workspace' = abspath(cwd, argv.workspace)
  /\ log' = Append(log, LogRec("DEBUG", "Using output directory"))
  /\ pc' = "pull_auth"
  /\ UNCHANGED <<environ, cwd, argv, attributes_by_pattern, socket, attribute_struct,
                 auth_config, collection, req, auth_configs, channel, channelsOpened,
                 calls, resp, retval, exc, stdout, exit_status>>

\* line 106: create_auth_config(reference) returns or raises
AuthStep(here, next) ==
  /\ pc = here
  /\ \E cfg \in DockerConfigs :
       LET r == create_auth_config(cfg, argv.reference)
       IN  /\ auth_configs' = cfg
           /\ IF r.raised
              THEN /\ exc' = [tag |-> r.exc]
                   /\ pc' = "raised"
                   /\ UNCHANGED auth_config
              ELSE /\ auth_config' = r.value
                   /\ pc' = next
                   /\ UNCHANGED exc
  /\ UNCHANGED <<environ, cwd, argv, attributes_by_pattern, socket, attribute_struct,
                 abs_workspace, collection, req, channel, channelsOpened, calls, resp,
                 retval, log, stdout, exit_status>>

PullAuth == AuthStep("pull_auth", "pull_req")

\* lines 108-113
PullRequest ==
  /\ pc = "pull_req"
  /\ req' = RetrieveRequest(argv.reference, abs_workspace, attribute_struct, auth_config)
  /\ pc' = "pull_channel"
  /\ UNCHANGED <<environ, cwd, argv, attributes_by_pattern, socket, attribute_struct,
                 abs_workspace, auth_config, collection, auth_configs, channel,
                 channelsOpened, calls, resp, retval, exc, log, stdout, exit_status>>

\* lines 115-116 (and 159-160): enter the with block
OpenChannel(here, next) ==
  /\ pc = here
  /\ channel' = insecure_channel(socket)
  /\ channelsOpened' = channelsOpened + 1
  /\ pc' = next
  /\ UNCHANGED <<environ, cwd, argv, attributes_by_pattern, socket, attribute_struct,
                 abs_workspace, auth_config, collection, req, auth_configs, calls, resp,
                 retval, exc, log, stdout, exit_status>>

PullOpenChannel == OpenChannel("pull_channel", "pull_rpc")

\* the stub call is issued and blocks
SendRpc(here, next, method) ==
  /\ pc = here
  /\ calls' = StubCall(calls, method, req)
  /\ pc' = next
  /\ UNCHANGED <<environ, cwd, argv, attributes_by_pattern, socket, attribute_struct,
                 abs_workspace, auth_config, collection, req, auth_configs, channel,
                 channelsOpened, resp, retval, exc, log, stdout, exit_status>>

\* line 118
PullSendRpc == SendRpc("pull_rpc", "pull_wait", "RetrieveContent")

\* the stub call raises (transport or server error): the with block is left
RpcError(here) ==
  /\ pc = here
  /\ resp' = [tag |-> "RpcError"]
  /\ pc' = RpcErrorOutcome.pc
  /\ exc' = RpcErrorOutcome.exc
  /\ retval' = RpcErrorOutcome.retval
  /\ channel' = ChannelExit(channel, TRUE)
  /\ UNCHANGED <<environ, cwd, argv, attributes_by_pattern, socket, attribute_struct,
                 abs_workspace, auth_config, collection, req, auth_configs,
                 channelsOpened, calls, log, stdout, exit_status>>

PullRpcError == RpcError("pull_wait")

\* lines 118-124: the response arrives, the with block is left
PullResponse ==
  /\ pc = "pull_wait"
  /\ \E digests \in DigestLists :
       /\ resp' = [tag |-> "Retrieve.Response", digests |-> digests]
       /\ retval' = pull_result(digests)
       /\ log' = IF Len(digests) = 0
                 THEN Append(log, LogRec("INFO", "No matching collections"))
                 ELSE log
  /\ channel' = ChannelExit(channel, FALSE)
  /\ pc' = "returned"
  /\ UNCHANGED <<environ, cwd, argv, attributes_by_pattern, socket, attribute_struct,
                 abs_workspace, auth_config, collection, req, auth_configs,
                 channelsOpened, calls, exc, stdout, exit_status>>

\* ----------------------------------------------------------------- push
\* line 145
PushEnter ==
  /\ pc = "dispatch"
  /\ argv.cmd = "push"
  /\ collection' = create_collection(attributes_by_pattern)
  /\ log' = log \o create_collection_log(attributes_by_pattern)
  /\ pc' = "push_abspath"
  /\ UNCHANGED <<environ, cwd, argv, attributes_by_pattern, socket, attribute_struct,
                 abs_workspace, auth_config, req, auth_configs, channel, channelsOpened,
                 calls, resp, retval, exc, stdout, exit_status>>

\* lines 147-148
PushAbspath ==
  /\ pc = "push_abspath"
  /\ abs_workspace' = abspath(cwd, argv.workspace)
  /\ log' = Append(log, LogRec("DEBUG", "Using workspace"))
  /\ pc' = "push_auth"
  /\ UNCHANGED <<environ, cwd, argv, attributes_by_pattern, socket, attribute_struct,
                 auth_config, collection, req, auth_configs, channel, channelsOpened,
                 calls, resp, retval, exc, stdout, exit_status>>

\* line 150
PushAuth == AuthStep("push_auth", "push_req")

\* lines 152-157
PushRequest ==
  /\ pc = "push_req"
  /\ req' = PublishRequest(abs_workspace, argv.reference, collection, auth_config)
  /\ pc' = "push_channel"
  /\ UNCHANGED <<environ, cwd, argv, attributes_by_pattern, socket, attribute_struct,
                 abs_workspace, auth_config, collection, auth_configs, channel,
                 channelsOpened, calls, resp, retval, exc, log, stdout, exit_status>>

\* lines 159-160
PushOpenChannel == OpenChannel("push_channel", "push_rpc")

\* line 161
PushSendRpc == SendRpc("push_rpc", "push_wait", "PublishContent")

PushRpcError == RpcError("push_wait")

\* lines 161-162: the response arrives, the with block is left
PushResponse ==
  /\ pc = "push_wait"
  /\ \E digest \in PublishDigests :
       /\ resp' = [tag |-> "Publish.Response", digest |-> digest]
       /\ retval' = push_result(digest)
  /\ channel' = ChannelExit(channel, FALSE)
  /\ pc' = "returned"
  /\ UNCHANGED <<environ, cwd, argv, attributes_by_pattern, socket, attribute_struct,
                 abs_workspace, auth_config, collection, req, auth_configs,
                 channelsOpened, calls, exc, log, stdout, exit_status>>

\* ------------------------------------------------------------ fire.Fire
\* line 176: the command returned; fire prints a result that is not None
FireReturn ==
  /\ pc = "returned"
  /\ stdout' = IF retval.tag = "None" THEN stdout ELSE Append(stdout, retval.s)
  /\ exit_status' = PyInt(0)
  /\ pc' = "exited"
  /\ UNCHANGED <<environ, cwd, argv, attributes_by_pattern, socket, attribute_struct,
                 abs_workspace, auth_config, collection, req, auth_configs, channel,
                 channelsOpened, calls, resp, retval, exc, log>>

\* line 176: the exception is not caught anywhere: traceback, exit status 1
FireRaise ==
  /\ pc = "raised"
  /\ exit_status' = PyInt(1)
  /\ pc' = "exited"
  /\ UNCHANGED <<environ, cwd, argv, attributes_by_pattern, socket, attribute_struct,
                 abs_workspace, auth_config, collection, req, auth_configs, channel,
                 channelsOpened, calls, resp, retval, exc, log, stdout>>

Next ==
  \/ MainStartup
  \/ PullEnter
  \/ PullAbspath
  \/ PullAuth
  \/ PullRequest
  \/ PullOpenChannel
  \/ PullSendRpc
  \/ PullRpcError
  \/ PullResponse
  \/ PushEnter
  \/ PushAbspath
  \/ PushAuth
  \/ PushRequest
  \/ PushOpenChannel
  \/ PushSendRpc
  \/ PushRpcError
  \/ PushResponse
  \/ FireReturn
  \/ FireRaise

Spec == Init /\ [][Next]_vars

SpecTables == InitTables /\ [][Next]_vars

\* ================================================================ claims
Finished == pc \in {"returned", "raised", "exited"}
Method == IF argv.cmd = "pull" THEN "RetrieveContent" ELSE "PublishContent"

\* C1: a run of pull or push issues at most one RPC, of the command's own
\* method; exactly one once the command has finished with credential
\* resolution having succeeded; and after an RPC failure the call was issued
\* once only (no retry).
C1_OneRpc ==
  /\ Len(calls) <= 1
  /\ \A i \in 1..Len(calls) : calls[i].method = Method
  /\ (Finished /\ auth_config.tag # "unset") => Len(calls) = 1
  /\ resp.tag = "RpcError" => Len(calls) = 1
  /\ (Finished /\ auth_config.tag = "unset") => Len(calls) = 0

C1_Witness == pc = "exited" /\ resp.tag = "RpcError" /\ Len(calls) = 1

\* C2: a command opens at most one channel, and a finished command (returned
\* or raised) has no open channel: the one it opened is closed.
C2_ChannelReleased ==
  /\ channelsOpened <= 1
  /\ Finished => channel.state # "open"
  /\ (Finished /\ channelsOpened = 1) => channel.state = "closed"

C2_Witness == pc = "raised" /\ resp.tag = "RpcError" /\ channel.state = "closed"

\* C3: an RPC failure ends the command in the failure outcome: the error
\* propagates (exit status 1), nothing is returned and nothing is printed; a
\* failed command never has a return value or output.
C3_FailureHasNoOutput ==
  /\ resp.tag = "RpcError" =>
       /\ pc \in {"raised", "exited"}
       /\ exc.tag = "RpcError"
       /\ pc = "exited" => exit_status = PyInt(1)
  /\ exc.tag # "None" => (retval.tag = "unset" /\ stdout = <<>>)
  /\ (pc = "exited" /\ exit_status = PyInt(1)) => (retval.tag = "unset" /\ stdout = <<>>)

C3_Witness == pc = "exited" /\ resp.tag = "RpcError" /\ exit_status = PyInt(1)

\* where the i-th of the joined pieces starts in the joined string
RECURSIVE Offset(_, _)
Offset(ds, i) == IF i = 1 THEN 0 ELSE Offset(ds, i - 1) + Len(ds[i - 1]) + 1

\* s is the pieces ds in order with exactly one newline between neighbours
IsNewlineJoined(s, ds) ==
  /\ Len(s) = Offset(ds, Len(ds)) + Len(ds[Len(ds)])
  /\ \A i \in 1..Len(ds) : SubSeq(s, Offset(ds, i) + 1, Offset(ds, i) + Len(ds[i])) = ds[i]
  /\ \A i \in 1..(Len(ds) - 1) : s[Offset(ds, i) + Len(ds[i]) + 1] = "\n"

\* C4: on a successful RetrieveContent response pull returns None and logs an
\* informational message when the digest list is empty (a success: no
\* exception, exit status 0), and otherwise returns the digests in response
\* order with a single newline between neighbours and none before or after.
C4_PullResult ==
  resp.tag = "Retrieve.Response" =>
    /\ exc.tag = "None"
    /\ pc = "exited" => exit_status = PyInt(0)
    /\ IF Len(resp.digests) = 0
       THEN /\ retval.tag = "None"
            /\ \E i \in 1..Len(log) :
                 log[i].level = "INFO" /\ log[i].msg = "No matching collections"
            /\ stdout = <<>>
       ELSE /\ retval.tag = "str"
            /\ IsNewlineJoined(retval.s, resp.digests)

C4_Witness ==
  /\ pc = "returned"
  /\ resp.tag = "Retrieve.Response"
  /\ resp.digests = <<<<"d", "1">>, <<"d", "2">>>>
  /\ retval = PyStr(<<"d", "1", "\n", "d", "2">>)

\* the target of a channel bound to the Unix domain socket at address
TargetOf(address) == S_unix \o address

\* C5 as claimed: the client's address is the value of UOR_SOCKET_ADDRESS
\* whenever it is set, whatever the value, and the default only when unset;
\* every channel is bound to unix://<that address>.
C5_AnySetValueIsUsed ==
  pc # "main" =>
    /\ socket.s = (IF environ.tag # "None" THEN environ.s ELSE S_default_socket)
    /\ channel.state # "none" => channel.target = TargetOf(socket.s)

\* C5 amended: the client's address is the value of UOR_SOCKET_ADDRESS when
\* it is set to a non-empty string, and /var/run/uor.sock when it is unset or
\* set to the empty string; it is fixed from startup on, and every channel
\* is bound to unix://<that address>.
C5_NonEmptyValueIsUsed ==
  pc # "main" =>
    /\ environ.tag = "None" => socket.s = S_default_socket
    /\ (environ.tag = "str" /\ environ.s # <<>>) => socket.s = environ.s
    /\ (environ.tag = "str" /\ environ.s = <<>>) => socket.s = S_default_socket
    /\ channel.state # "none" => channel.target = TargetOf(socket.s)

C5_Witness ==
  /\ environ = PyStr(<<>>)
  /\ channel.state = "open"
  /\ channel.target = S_unix \o S_default_socket

\* the credential store was read and the reference resolved to a registry
AuthAttempted == auth_configs.tag # "unset"
Resolved ==
  /\ auth_configs.tag = "AuthConfig"
  /\ ~resolve_repository_name(argv.reference).raised
ResolvedHost == resolve_repository_name(argv.reference).registry

\* C6: whenever the store has an entry matching the resolved host, the
\* resolver returns (never raises) an AuthConfig whose server_address is
\* https://<resolved-host>, with the entry's username and password; whenever
\* it has none, it returns None.
C6_ResolverReturns ==
  (AuthAttempted /\ Resolved) =>
    IF HasMatchingEntry(auth_configs, ResolvedHost)
    THEN /\ exc.tag = "None" \/ exc.tag = "RpcError"
         /\ auth_config.tag = "AuthConfig"
         /\ auth_config.server_address = S_https \o ResolvedHost
         /\ LET entry == resolve_authconfig(auth_configs, ResolvedHost).d
            IN  /\ auth_config.username = Get(entry, "username")
                /\ auth_config.password = Get(entry, "password")
    ELSE auth_config.tag = "None"

\* C8: on a successful PublishContent response push returns the response's
\* digest string itself, and always a string (never None), which fire prints.
C8_PushResult ==
  resp.tag = "Publish.Response" =>
    /\ retval.tag = "str"
    /\ retval.s = resp.digest
    /\ exc.tag = "None"
    /\ pc = "exited" => (stdout = <<resp.digest>> /\ exit_status = PyInt(0))

C8_Witness ==
  /\ pc = "exited"
  /\ resp.tag = "Publish.Response"
  /\ resp.digest = <<>>
  /\ retval = PyStr(<<>>)

\* C10: the channel is opened and the RPC issued only after credential
\* resolution has returned; push resolves credentials only after it built
\* the Collection; and when resolution fails (the store is unreadable or
\* malformed, or anything else it raises) the command ends raised with no
\* channel opened and no RPC issued.
C10_AuthBeforeChannel ==
  /\ (channelsOpened > 0 \/ channel.state # "none" \/ calls # <<>>) =>
       (AuthAttempted /\ auth_config.tag # "unset")
  /\ (argv.cmd = "push" /\ AuthAttempted) => collection.tag = "Collection"
  /\ auth_configs.tag = "invalid" =>
       /\ pc \in {"raised", "exited"}
       /\ exc.tag = "InvalidConfigFile"
       /\ channelsOpened = 0 /\ channel.state = "none" /\ calls = <<>>
  /\ (AuthAttempted /\ auth_config.tag = "unset") =>
       /\ pc \in {"raised", "exited"}
       /\ channelsOpened = 0 /\ channel.state = "none" /\ calls = <<>>

C10_Witness ==
  /\ pc = "exited"
  /\ auth_configs.tag = "invalid"
  /\ exit_status = PyInt(1)
  /\ channelsOpened = 0

\* the Python scalar a Struct value reads back as
ValueToPy(v) ==
  CASE v.kind = "null_value"   -> None
    [] v.kind = "bool_value"   -> PyBool(v.bool_value)
    [] v.kind = "string_value" -> PyStr(v.string_value)
    [] v.kind = "number_value" -> PyInt(v.number_value)

\* the Struct carries exactly the key/value pairs of the dict
SameMapping(fields, dictionary) ==
  /\ Len(fields) = Len(dictionary)
  /\ Keys(fields) = Keys(dictionary)
  /\ \A k \in Keys(dictionary) : ValueToPy(Get(fields, k)) = Get(dictionary, k)

\* C7: the Collection has exactly one file-rule per table entry, in table
\* order, the i-th carrying the i-th entry's pattern and exactly its
\* attribute key/value pairs; the table is still the one the rules were
\* built from, and the request sent carries that Collection.
C7_OneRulePerEntry ==
  collection.tag = "Collection" =>
    /\ Len(collection.files) = Len(attributes_by_pattern)
    /\ \A i \in 1..Len(attributes_by_pattern) :
         /\ collection.files[i].file = attributes_by_pattern[i][1]
         /\ SameMapping(collection.files[i].attributes, attributes_by_pattern[i][2])
    /\ \A i \in 1..Len(calls) : calls[i].request.collection = collection

C7_Witness ==
  /\ collection.tag = "Collection"
  /\ Len(attributes_by_pattern) = 3
  /\ Len(collection.files) = 3
  /\ Len(calls) = 1

\* an absolute path that normalisation leaves alone: one or two leading
\* slashes, then components that are not empty, "." or ".."
IsNormalAbs(p) ==
  /\ isabs(p)
  /\ ~StartsWith(p, <<"/", "/", "/">>)
  /\ LET k == IF StartsWith(p, <<"/", "/">>) THEN 2 ELSE 1
         rest == SubSeq(p, k + 1, Len(p))
     IN  \/ rest = <<>>
         \/ \A i \in 1..Len(Split(rest, "/")) :
              Split(rest, "/")[i] \notin {<<>>, <<".">>, <<".", ".">>}

\* a relative path of plain components
IsPlainRelative(p) ==
  /\ p # <<>>
  /\ ~isabs(p)
  /\ \A i \in 1..Len(Split(p, "/")) : Split(p, "/")[i] \notin {<<>>, <<".">>, <<".", ".">>}

UnderCwd(p) == IF cwd = <<"/">> THEN cwd \o p ELSE cwd \o <<"/">> \o p

WorkspaceField(r) == IF argv.cmd = "pull" THEN r.destination ELSE r.source
ReferenceField(r) == IF argv.cmd = "pull" THEN r.source ELSE r.destination

\* what C9 says of every field but the workspace
OtherFieldsPopulated(r) ==
  /\ ReferenceField(r) = argv.reference
  /\ r.auth = auth_config
  /\ r.auth.tag \in {"None", "AuthConfig"}
  /\ r.auth.tag = "None" <=> ~HasMatchingEntry(auth_configs, ResolvedHost)
  /\ argv.cmd = "pull" =>
       IF argv.attributes.tag = "None" THEN r.filter = <<>>
       ELSE SameMapping(r.filter, argv.attributes.d)

\* C9 as claimed: the request sent carries an absolute workspace, which is
\* the supplied path itself whenever that path is already absolute; the
\* reference unmodified; the resolver's result as auth; the filter.
C9_AbsolutePathUnchanged ==
  \A i \in 1..Len(calls) :
    LET r == calls[i].request
    IN  /\ isabs(WorkspaceField(r))
        /\ isabs(argv.workspace) => WorkspaceField(r) = argv.workspace
        /\ OtherFieldsPopulated(r)

\* C9 amended: the workspace of the request is absolute and normalised; it
\* is the supplied path itself when that is absolute and already normalised,
\* and the working directory joined with the path when the path is relative
\* with plain components; the other fields as claimed.
C9_RequestPopulated ==
  \A i \in 1..Len(calls) :
    LET r == calls[i].request
    IN  /\ r = req
        /\ IsNormalAbs(WorkspaceField(r))
        /\ IsNormalAbs(argv.workspace) => WorkspaceField(r) = argv.workspace
        /\ IsPlainRelative(argv.workspace) => WorkspaceField(r) = UnderCwd(argv.workspace)
        /\ argv.workspace = <<>> => WorkspaceField(r) = cwd
        /\ OtherFieldsPopulated(r)

C9_Witness ==
  /\ Len(calls) = 1
  /\ argv.workspace = <<"/", "a", "/">>
  /\ WorkspaceField(calls[1].request) = <<"/", "a">>

====
